---- MODULE Spec2Model ----
(***************************************************************************)
(* science_numpy.py: a script of top-level statements run once, in order,  *)
(* by the interpreter.  The model keeps the interpreter's position, the    *)
(* array objects the statements bind (a reference into a shared buffer, as *)
(* an ndarray is), the buffers themselves, the working directory's files   *)
(* and the exception that ended the run, if one did.                       *)
(***************************************************************************)
EXTENDS Integers, Sequences, FiniteSets, TLC

VARIABLES
    pc,        \* index into Stmts of the next top-level statement
    exc,       \* "none", or the exception that ended the run
    lib,       \* which generation of the numerical library is installed
    heap,      \* buffer id -> the buffer's elements (a sequence of integers)
    arr,       \* the name arr: an array object, or NoneObj / Other
    slice1,    \* the name slice1
    data,      \* the name data
    subset,    \* the name subset
    it,        \* the comprehension of line 282: elements consumed so far
    result,    \* the name result (the list the comprehension builds)
    X,         \* the name X (line 314), in tenths
    files,     \* working directory: file name -> contents, or Absent
    files0,    \* history: the working directory when the run started
    hist       \* history: how slice1 / subset were made and the last write

vars == <<pc, exc, lib, heap, arr, slice1, data, subset, it, result, X,
          files, files0, hist>>

----------------------------------------------------------------------------
(* Bounds of the model *)

MaxLen == 3          \* longest array the slicing specification draws
MaxWrites == 2       \* writes through slice1 / subset per behaviour
MaxRows == 3         \* most rows of a 2-D array the mask specification draws
MaxCols == 2         \* most columns of such an array

----------------------------------------------------------------------------
(* Values *)

None == <<>>                       \* an omitted slice bound, as in s[:2]
Int1(i) == <<i>>                   \* a given slice bound
NoneObj == [kind |-> "None"]       \* a name not bound yet
Other == [kind |-> "other"]        \* a value the model does not follow

Min(a, b) == IF a < b THEN a ELSE b
Max(a, b) == IF a > b THEN a ELSE b

Range(f) == {f[x] : x \in DOMAIN f}

----------------------------------------------------------------------------
(* ndarray: 1-D objects are [kind, buf, off, len]: len elements of buffer  *)
(* buf starting at offset off.  2-D objects are [kind, buf, rows, ncol]:   *)
(* row r is the ncol elements of buf starting at offset rows[r].           *)

\* slice.indices(n) for step 1: the first index of x[i:j] on length n
SliceStart(i, n) ==
    IF i = None THEN 0
    ELSE IF i[1] < 0 THEN Max(i[1] + n, 0) ELSE Min(i[1], n)

\* slice.indices(n) for step 1: the index after the last of x[i:j]
SliceStop(j, n) ==
    IF j = None THEN n
    ELSE IF j[1] < 0 THEN Max(j[1] + n, 0) ELSE Min(j[1], n)

SliceLen(i, j, n) == Max(SliceStop(j, n) - SliceStart(i, n), 0)

\* the offsets, within an array of length n, that x[i:j] selects
SliceOffsets(i, j, n) ==
    {k \in 0 .. n - 1 : SliceStart(i, n) <= k /\ k < SliceStop(j, n)}

\* the smallest buffer id not in use
NewBuf(h) == CHOOSE b \in 1 .. Cardinality(DOMAIN h) + 1 : b \notin DOMAIN h

\* np.arange(n) as buffer contents
Arange(n) == [k \in 1 .. n |-> k - 1]

\* the heap with one more buffer, holding xs
Alloc(h, xs) == (NewBuf(h) :> xs) @@ h

\* a[k], k a valid offset
Get(h, a, k) == h[a.buf][a.off + k + 1]

\* the elements of a 1-D array, as a sequence
Values(h, a) == [k \in 1 .. a.len |-> Get(h, a, k - 1)]

\* np.array(xs) / np.arange(n): a new array owning a new buffer
NewArray(h, xs) ==
    [heap |-> Alloc(h, xs),
     obj |-> [kind |-> "nd1", buf |-> NewBuf(h), off |-> 0, len |-> Len(xs)]]

\* a faulty a.copy(): it hands back a's own storage
CopyShared(h, a) == [heap |-> h, obj |-> a]

\* a.copy(): a new array owning a new buffer with a's elements
Copy(h, a) == NewArray(h, Values(h, a))

\* a faulty a[i:j]: it copies the selected elements into a new buffer
BasicSliceCopying(h, a, i, j) ==
    NewArray(h, [k \in 1 .. SliceLen(i, j, a.len) |->
                    Get(h, a, SliceStart(i, a.len) + k - 1)])

\* a[i:j] by basic slicing: a view, the same buffer at a shifted offset
BasicSlice(h, a, i, j) ==
    [heap |-> h,
     obj |-> [kind |-> "nd1", buf |-> a.buf, off |-> a.off + SliceStart(i, a.len),
              len |-> SliceLen(i, j, a.len)]]

\* a[i:j] = v: the scalar v stored in every selected element of a's buffer
SetSlice(h, a, i, j, v) ==
    [h EXCEPT ![a.buf] =
        [p \in 1 .. Len(h[a.buf]) |->
            IF (p - 1 - a.off) \in SliceOffsets(i, j, a.len) THEN v ELSE h[a.buf][p]]]

\* the buffers some name still refers to (reference counting frees the rest)
Live(h, roots) ==
    [b \in {b \in DOMAIN h :
                \E k \in DOMAIN roots :
                    roots[k].kind \in {"nd1", "nd2"} /\ roots[k].buf = b}
        |-> h[b]]

----------------------------------------------------------------------------
(* 2-D arrays *)

\* np.arange(nrow*ncol).reshape((nrow, ncol))
numbers_array(h, nrow, ncol) ==
    [heap |-> Alloc(h, Arange(nrow * ncol)),
     obj |-> [kind |-> "nd2", buf |-> NewBuf(h),
              rows |-> [r \in 1 .. nrow |-> (r - 1) * ncol], ncol |-> ncol]]

NRows(a) == Len(a.rows)

\* the rows of a 2-D array, each a sequence
Values2(h, a) ==
    [r \in 1 .. NRows(a) |-> [c \in 1 .. a.ncol |-> h[a.buf][a.rows[r] + c]]]

\* the buffer positions (1-based) of row r (1-based) of a
RowCells(a, r) == {a.rows[r] + c : c \in 1 .. a.ncol}

\* the row numbers a Boolean mask selects, in order
Selected(m) == SelectSeq([r \in 1 .. Len(m) |-> r], LAMBDA r : m[r])

\* a faulty a[m]: it hands back the selected rows of a's own storage
BoolIndexView(h, a, m) ==
    [heap |-> h,
     obj |-> [kind |-> "nd2", buf |-> a.buf,
              rows |-> [k \in 1 .. Len(Selected(m)) |-> a.rows[Selected(m)[k]]],
              ncol |-> a.ncol]]

\* a[m], m a Boolean mask over the rows: a new array holding the selected rows
BoolIndex(h, a, m) ==
    LET sel == Selected(m)
        xs == [p \in 1 .. Len(sel) * a.ncol |->
                  h[a.buf][a.rows[sel[((p - 1) \div a.ncol) + 1]] + ((p - 1) % a.ncol) + 1]]
    IN  [heap |-> Alloc(h, xs),
         obj |-> [kind |-> "nd2", buf |-> NewBuf(h),
                  rows |-> [k \in 1 .. Len(sel) |-> (k - 1) * a.ncol],
                  ncol |-> a.ncol]]

\* a[m] = v, m a Boolean mask over the rows: v stored in every selected row
SetMaskedRows(h, a, m, v) ==
    [h EXCEPT ![a.buf] =
        [p \in 1 .. Len(h[a.buf]) |->
            IF \E r \in 1 .. NRows(a) : m[r] /\ p \in RowCells(a, r)
            THEN v ELSE h[a.buf][p]]]

\* a[a < 0] = 0: every negative element of a set to zero
ClipNegative(h, a) ==
    [h EXCEPT ![a.buf] =
        [p \in 1 .. Len(h[a.buf]) |->
            IF (\E r \in 1 .. NRows(a) : p \in RowCells(a, r)) /\ h[a.buf][p] < 0
            THEN 0 ELSE h[a.buf][p]]]

\* a[:, c] -= d, c a column (0-based)
SubColumn(h, a, c, d) ==
    [h EXCEPT ![a.buf] =
        [p \in 1 .. Len(h[a.buf]) |->
            IF \E r \in 1 .. NRows(a) : p = a.rows[r] + c + 1
            THEN h[a.buf][p] - d ELSE h[a.buf][p]]]

\* an integer index r on an axis of length n is in range
IndexOK(r, n) == -n <= r /\ r < n

\* the 1-based position an in-range integer index r denotes
IndexPos(r, n) == IF r < 0 THEN r + n + 1 ELSE r + 1

\* a[r] = v, r an in-range integer index: v stored in every element of the row
SetRow(h, a, r, v) ==
    [h EXCEPT ![a.buf] =
        [p \in 1 .. Len(h[a.buf]) |->
            IF p \in RowCells(a, IndexPos(r, NRows(a))) THEN v ELSE h[a.buf][p]]]

\* the array cats of lines 224-225
cats == <<"tabby", "calico", "siamese", "tabby", "siamese", "calico", "calico">>

\* cats == name and cats != name
CatsEq(name) == [r \in 1 .. Len(cats) |-> cats[r] = name]
CatsNe(name) == [r \in 1 .. Len(cats) |-> cats[r] # name]

----------------------------------------------------------------------------
(* Linear algebra (lines 314-316); matrices hold tenths *)

MatN == 5

\* the outcomes of np.random.randn(..).round(1) the model draws, in tenths
RandnTenths == {-7, 0, 12}

\* the matrices X the model draws: a sample whose off-diagonal entries
\* rounded to zero
RandnMatrices ==
    {[r \in 1 .. MatN |-> [c \in 1 .. MatN |-> IF r = c THEN d[r] ELSE 0]] :
        d \in [1 .. MatN -> RandnTenths]}

RECURSIVE SumTo(_, _)
SumTo(f, n) == IF n = 0 THEN 0 ELSE f[n] + SumTo(f, n - 1)

\* X.T.dot(X)
Gram(x) ==
    [i \in 1 .. MatN |-> [j \in 1 .. MatN |->
        SumTo([k \in 1 .. MatN |-> x[k][i] * x[k][j]], MatN)]]

\* np.linalg.inv(m) raises LinAlgError("Singular matrix"): the factorisation
\* meets an exactly zero pivot, as it does when a column of m is all zeros
InvRaises(m) == \E c \in 1 .. MatN : \A r \in 1 .. MatN : m[r][c] = 0

----------------------------------------------------------------------------
(* Files (lines 385-388) *)

\* whether a file name ends with ".npy"
EndsWithNpy(f) == Len(f) >= 4 /\ SubSeq(f, Len(f) - 3, Len(f)) = ".npy"

\* np.save's file name: ".npy" is appended unless the name already ends so
NpyName(f) == IF EndsWithNpy(f) THEN f ELSE f \o ".npy"

\* the .npy serialisation of a 1-D integer array
NpyBytes(xs) == [magic |-> "NUMPY", shape |-> <<Len(xs)>>, body |-> xs]

\* a faulty np.save(f, a): it writes to the name as given, without ".npy"
NpSaveAsGiven(fs, f, xs) ==
    [n \in DOMAIN fs \cup {f} |-> IF n = f THEN NpyBytes(xs) ELSE fs[n]]

\* np.save(f, a): the directory afterwards
NpSave(fs, f, xs) ==
    [n \in DOMAIN fs \cup {NpyName(f)} |->
        IF n = NpyName(f) THEN NpyBytes(xs) ELSE fs[n]]

\* np.load(f) succeeds: the file exists and is a .npy serialisation
NpLoadOK(fs, f) == f \in DOMAIN fs /\ fs[f].magic = "NUMPY"

----------------------------------------------------------------------------
(* The script *)

\* the first line of every top-level statement, in source order
Stmts ==
    <<
       1, 40, 43, 46, 48, 53, 60, 66, 67, 70, 71, 72,
       77, 78, 79, 80, 82, 83, 84, 85, 86, 87, 90, 91,
       92, 93, 96, 97, 98, 99, 102, 103, 111, 112, 113, 114,
       115, 116, 117, 120, 121, 122, 123, 124, 125, 126, 127, 128,
       129, 130, 131, 132, 135, 136, 137, 140, 143, 144, 152, 153,
       154, 156, 157, 158, 159, 162, 163, 166, 167, 168, 174, 175,
       176, 177, 178, 179, 182, 183, 184, 185, 188, 189, 190, 191,
       192, 193, 194, 195, 196, 199, 203, 204, 205, 206, 207, 208,
       209, 212, 213, 214, 215, 216, 217, 218, 224, 227, 230, 231,
       232, 233, 235, 236, 237, 238, 241, 242, 243, 244, 245, 248,
       249, 250, 251, 255, 256, 257, 258, 259, 265, 266, 267, 268,
       269, 270, 273, 279, 280, 281, 282, 283, 284, 285, 287, 288,
       289, 290, 296, 297, 298, 300, 301, 302, 303, 309, 310, 311,
       312, 314, 315, 316, 317, 318, 319, 325, 326, 327, 328, 330,
       331, 332, 334, 335, 336, 339, 340, 342, 343, 344, 350, 351,
       352, 353, 355, 356, 357, 358, 360, 361, 362, 363, 370, 371,
       372, 373, 374, 375, 378, 379, 386, 387, 388
    >>

End == Len(Stmts) + 1
Finished == pc = End

\* the interpreter is about to run the top-level statement at source line l
At(l) == exc = "none" /\ pc \in 1 .. Len(Stmts) /\ Stmts[pc] = l

Roots(a, s, d, u) == <<a, s, d, u>>

NoHist == [made |-> "none", lo |-> 0, nw |-> 0, offs |-> {}, v |-> 0,
           pre |-> <<>>, spre |-> <<>>, src |-> <<>>]

----------------------------------------------------------------------------
(* Operations on the names, as the statements of the script perform them   *)

\* arr = np.arange(n)
BindArange(n) ==
    LET new == NewArray(Live(heap, Roots(NoneObj, slice1, data, subset)), Arange(n))
    IN  /\ arr' = new.obj
        /\ heap' = new.heap
        /\ UNCHANGED <<slice1, data, subset, hist>>

\* arr = <a value the model does not follow>
BindArrOther ==
    /\ arr' = Other
    /\ heap' = Live(heap, Roots(Other, slice1, data, subset))
    /\ UNCHANGED <<slice1, data, subset, hist>>

\* data = <a value the model does not follow>
BindDataOther ==
    /\ data' = Other
    /\ heap' = Live(heap, Roots(arr, slice1, Other, subset))
    /\ UNCHANGED <<arr, slice1, subset, hist>>

\* arr[i:j] = v
WriteArr(i, j, v) ==
    /\ arr.kind = "nd1"
    /\ heap' = SetSlice(heap, arr, i, j, v)
    /\ UNCHANGED <<arr, slice1, data, subset, hist>>

\* slice1 = arr[i:j]
TakeSlice(i, j) ==
    /\ arr.kind = "nd1"
    /\ LET s == BasicSlice(heap, arr, i, j)
       IN  /\ slice1' = s.obj
           /\ heap' = Live(s.heap, Roots(arr, s.obj, data, subset))
           /\ hist' = [NoHist EXCEPT !.made = "view",
                                     !.lo = SliceStart(i, arr.len),
                                     !.src = Values(heap, arr)]
    /\ UNCHANGED <<arr, data, subset>>

\* slice1 = arr[i:j].copy()
TakeSliceCopy(i, j) ==
    /\ arr.kind = "nd1"
    /\ LET s == BasicSlice(heap, arr, i, j)
           c == Copy(s.heap, s.obj)
       IN  /\ slice1' = c.obj
           /\ heap' = Live(c.heap, Roots(arr, c.obj, data, subset))
           /\ hist' = [NoHist EXCEPT !.made = "copy",
                                     !.lo = SliceStart(i, arr.len),
                                     !.src = Values(heap, arr)]
    /\ UNCHANGED <<arr, data, subset>>

\* slice1[a:b] = v
WriteSlice(a, b, v) ==
    /\ arr.kind = "nd1"
    /\ slice1.kind = "nd1"
    /\ heap' = SetSlice(heap, slice1, a, b, v)
    /\ hist' = [hist EXCEPT !.nw = @ + 1,
                            !.offs = SliceOffsets(a, b, slice1.len),
                            !.v = v,
                            !.pre = Values(heap, arr),
                            !.spre = Values(heap, slice1)]
    /\ UNCHANGED <<arr, slice1, data, subset>>

\* data = numbers_array(nrow, ncol)
BindNumbers(nrow, ncol) ==
    LET new == numbers_array(Live(heap, Roots(arr, slice1, NoneObj, subset)), nrow, ncol)
    IN  /\ data' = new.obj
        /\ heap' = new.heap
        /\ UNCHANGED <<arr, slice1, subset, hist>>

\* data[:, c] -= d
SubDataColumn(c, d) ==
    /\ data.kind = "nd2"
    /\ heap' = SubColumn(heap, data, c, d)
    /\ UNCHANGED <<arr, slice1, data, subset, hist>>

\* data[data < 0] = 0
ClipData ==
    /\ data.kind = "nd2"
    /\ heap' = ClipNegative(heap, data)
    /\ UNCHANGED <<arr, slice1, data, subset, hist>>

\* data[m] = v
WriteDataMasked(m, v) ==
    /\ data.kind = "nd2"
    /\ heap' = SetMaskedRows(heap, data, m, v)
    /\ UNCHANGED <<arr, slice1, data, subset, hist>>

\* subset = data[m]
TakeSubset(m) ==
    /\ data.kind = "nd2"
    /\ Len(m) = NRows(data)
    /\ LET s == BoolIndex(heap, data, m)
       IN  /\ subset' = s.obj
           /\ heap' = Live(s.heap, Roots(arr, slice1, data, s.obj))
           /\ hist' = [NoHist EXCEPT !.made = "mask", !.src = Values2(heap, data)]
    /\ UNCHANGED <<arr, slice1, data>>

\* subset[r] = v; an index out of range raises IndexError and stores nothing
WriteSubsetRow(r, v) ==
    /\ data.kind = "nd2"
    /\ subset.kind = "nd2"
    /\ IF IndexOK(r, NRows(subset))
       THEN /\ heap' = SetRow(heap, subset, r, v)
            /\ hist' = [hist EXCEPT !.nw = @ + 1,
                                    !.offs = {IndexPos(r, NRows(subset))},
                                    !.v = v,
                                    !.pre = Values2(heap, data),
                                    !.spre = Values2(heap, subset)]
            /\ exc' = exc
       ELSE /\ exc' = "IndexError"
            /\ UNCHANGED <<heap, hist>>
    /\ UNCHANGED <<arr, slice1, data, subset>>

----------------------------------------------------------------------------
(* The statements of the script *)

\* the library generations the script can meet: one that accepts every call
\* of the script, one that rejects the unary minus on a Boolean array
\* (line 242), one that also has no np.string_ (line 162)
Libs == {"legacy", "no_bool_negative", "no_string_alias"}

\* the arrays of lines 279-281, in tenths
xarr == <<11, 12, 13, 14, 15>>
yarr == <<21, 22, 23, 24, 25>>
cond == <<TRUE, FALSE, TRUE, TRUE, FALSE>>

\* the number of tuples zip(xarr, yarr, cond) yields
ZipLen == Min(Len(xarr), Min(Len(yarr), Len(cond)))

\* np.where(cond, xarr, yarr)
Where(c, x, y) == [k \in 1 .. Len(c) |-> IF c[k] THEN x[k] ELSE y[k]]

\* the statements that bind arr to a value the model does not follow
ArrOtherLines == {111, 124, 131, 152, 156, 163, 168, 287, 296, 300, 325, 334,
                  339, 350, 355}

\* the statements that run arr = np.arange(10)
ArangeLines == {174, 203, 212, 386}

\* the statements with an action of their own
OwnLines == ArrOtherLines \cup ArangeLines \cup
            {66, 162, 178, 205, 207, 214, 216, 230, 231, 242, 248, 250, 255, 257,
             282, 284, 314, 316, 387, 388}

\* the file contents the working directory may hold before the run
OldContents == {[magic |-> "TEXT", shape |-> <<>>, body |-> <<>>],
                NpyBytes(Arange(10))}

\* the working directories the run may start in
InitialFiles ==
    UNION {[names -> OldContents] : names \in SUBSET {"some_array.npy", "some_array"}}

Advance == pc' = pc + 1 /\ exc' = exc
Raise(e) == pc' = pc /\ exc' = e

Names == <<arr, slice1, data, subset, heap, hist>>
Env == <<lib, files0>>

\* a statement that changes nothing the model follows (print, def, import,
\* a binding of another name)
Plain ==
    /\ \E l \in Range(Stmts) \ OwnLines : At(l)
    /\ Advance
    /\ UNCHANGED <<Names, Env, it, result, X, files>>

\* line 66: data = np.random.randn(2, 3)
S66 == At(66) /\ BindDataOther /\ Advance /\ UNCHANGED <<Env, it, result, X, files>>

\* arr = <an array the model does not follow>
SArrOther ==
    /\ \E l \in ArrOtherLines : At(l)
    /\ BindArrOther
    /\ Advance
    /\ UNCHANGED <<Env, it, result, X, files>>

\* line 162: np.array([...], dtype=np.string_)
S162 ==
    /\ At(162)
    /\ IF lib = "no_string_alias" THEN Raise("AttributeError") ELSE Advance
    /\ UNCHANGED <<Names, Env, it, result, X, files>>

\* lines 174, 203, 212, 386: arr = np.arange(10)
SArange ==
    /\ \E l \in ArangeLines : At(l)
    /\ BindArange(10)
    /\ Advance
    /\ UNCHANGED <<Env, it, result, X, files>>

\* line 178: arr[5:8] = 12
S178 ==
    /\ At(178) /\ WriteArr(Int1(5), Int1(8), 12) /\ Advance
    /\ UNCHANGED <<Env, it, result, X, files>>

\* line 205: slice1 = arr[2:7]
S205 ==
    /\ At(205) /\ TakeSlice(Int1(2), Int1(7)) /\ Advance
    /\ UNCHANGED <<Env, it, result, X, files>>

\* lines 207 and 216: slice1[:2] = -42
S207 ==
    /\ (At(207) \/ At(216)) /\ WriteSlice(None, Int1(2), -42) /\ Advance
    /\ UNCHANGED <<Env, it, result, X, files>>

\* line 214: slice1 = arr[2:7].copy()
S214 ==
    /\ At(214) /\ TakeSliceCopy(Int1(2), Int1(7)) /\ Advance
    /\ UNCHANGED <<Env, it, result, X, files>>

\* line 230: data = numbers_array(7, 4)
S230 ==
    /\ At(230) /\ BindNumbers(7, 4) /\ Advance
    /\ UNCHANGED <<Env, it, result, X, files>>

\* line 231: data[:,2] -= 20
S231 ==
    /\ At(231) /\ SubDataColumn(2, 20) /\ Advance
    /\ UNCHANGED <<Env, it, result, X, files>>

\* line 242: print(data[-(cats == 'tabby')])
S242 ==
    /\ At(242)
    /\ IF lib = "legacy" THEN Advance ELSE Raise("TypeError")
    /\ UNCHANGED <<Names, Env, it, result, X, files>>

\* line 248: data[data < 0] = 0
S248 ==
    /\ At(248) /\ ClipData /\ Advance
    /\ UNCHANGED <<Env, it, result, X, files>>

\* line 250: data[cats != 'calico'] = -5
S250 ==
    /\ At(250) /\ WriteDataMasked(CatsNe("calico"), -5) /\ Advance
    /\ UNCHANGED <<Env, it, result, X, files>>

\* line 255: subset = data[cats == 'calico']
S255 ==
    /\ At(255) /\ TakeSubset(CatsEq("calico")) /\ Advance
    /\ UNCHANGED <<Env, it, result, X, files>>

\* line 257: subset[0] = 10
S257 ==
    /\ At(257) /\ WriteSubsetRow(0, 10)
    /\ pc' = IF exc' = "none" THEN pc + 1 ELSE pc
    /\ UNCHANGED <<Env, it, result, X, files>>

\* line 282: one tuple of zip(xarr, yarr, cond) consumed by the comprehension
S282Iter ==
    /\ At(282)
    /\ it < ZipLen
    /\ it' = it + 1
    /\ result' = Append(result, IF cond[it + 1] THEN xarr[it + 1] ELSE yarr[it + 1])
    /\ UNCHANGED <<pc, exc, Names, Env, X, files>>

\* line 282: zip is exhausted, the list is bound to result
S282Done ==
    /\ At(282)
    /\ it = ZipLen
    /\ Advance
    /\ UNCHANGED <<Names, Env, it, result, X, files>>

\* line 284: result = np.where(cond, xarr, yarr)
S284 ==
    /\ At(284)
    /\ result' = Where(cond, xarr, yarr)
    /\ Advance
    /\ UNCHANGED <<Names, Env, it, X, files>>

\* line 314: X = np.random.randn(5, 5).round(1)
S314 ==
    /\ At(314)
    /\ X' \in RandnMatrices
    /\ Advance
    /\ UNCHANGED <<Names, Env, it, result, files>>

\* line 316: inv = np.linalg.inv(mat), with mat = X.T.dot(X) of line 315
S316 ==
    /\ At(316)
    /\ IF InvRaises(Gram(X)) THEN Raise("LinAlgError") ELSE Advance
    /\ UNCHANGED <<Names, Env, it, result, X, files>>

\* line 387: np.save('some_array', arr)
S387 ==
    /\ At(387)
    /\ arr.kind = "nd1"
    /\ files' = NpSave(files, "some_array", Values(heap, arr))
    /\ Advance
    /\ UNCHANGED <<Names, Env, it, result, X>>

\* line 388: np.load('some_array.npy')
S388 ==
    /\ At(388)
    /\ IF NpLoadOK(files, "some_array.npy") THEN Advance ELSE Raise("IOError")
    /\ UNCHANGED <<Names, Env, it, result, X, files>>

Init ==
    /\ pc = 1
    /\ exc = "none"
    /\ lib \in Libs
    /\ heap = <<>>
    /\ arr = NoneObj /\ slice1 = NoneObj /\ data = NoneObj /\ subset = NoneObj
    /\ it = 0
    /\ result = <<>>
    /\ X = <<>>
    /\ files0 \in InitialFiles
    /\ files = files0
    /\ hist = NoHist

Next ==
    \/ Plain \/ S66 \/ SArrOther \/ S162 \/ SArange \/ S178 \/ S205 \/ S207
    \/ S214 \/ S230 \/ S231 \/ S242 \/ S248 \/ S250 \/ S255 \/ S257
    \/ S282Iter \/ S282Done \/ S284 \/ S314 \/ S316 \/ S387 \/ S388

Spec == Init /\ [][Next]_vars

----------------------------------------------------------------------------
(* Slicing on its own: any of the arrays below, sliced as a view or as a   *)
(* copy, then written through the slice                                    *)

\* the arrays drawn: np.arange(n) and np.zeros(n) up to MaxLen, and the
\* script's np.arange(10)
SliceArrays ==
    {Arange(n) : n \in 0 .. MaxLen} \cup {[k \in 1 .. n |-> 0] : n \in 1 .. MaxLen}
        \cup {Arange(10)}

\* the slice bounds drawn for an array of length n: every bound up to one
\* past either end and None for the short arrays, the bounds the script
\* uses for its own array
SliceBounds(n) ==
    {None} \cup {Int1(i) : i \in IF n <= MaxLen THEN -(n + 1) .. (n + 1) ELSE {2, 7}}

\* the scalars stored (lines 178 and 207)
Scalars == {-42, 12}

Idle == <<pc, exc, lib, it, result, X, files, files0>>

InitSlice ==
    /\ pc = 0
    /\ exc = "none"
    /\ lib = "legacy"
    /\ \E xs \in SliceArrays :
          /\ heap = NewArray(<<>>, xs).heap
          /\ arr = NewArray(<<>>, xs).obj
    /\ slice1 = NoneObj /\ data = NoneObj /\ subset = NoneObj
    /\ it = 0
    /\ result = <<>>
    /\ X = <<>>
    /\ files0 = <<>>
    /\ files = files0
    /\ hist = NoHist

\* slice1 = arr[i:j], before the stores
View ==
    /\ hist.nw = 0
    /\ \E i, j \in SliceBounds(arr.len) : TakeSlice(i, j)
    /\ UNCHANGED Idle

\* slice1 = arr[i:j].copy(), before the stores
ViewCopy ==
    /\ hist.nw = 0
    /\ \E i, j \in SliceBounds(arr.len) : TakeSliceCopy(i, j)
    /\ UNCHANGED Idle

\* slice1[a:b] = v
Store ==
    /\ hist.nw < MaxWrites
    /\ \E a, b \in SliceBounds(arr.len), v \in Scalars : WriteSlice(a, b, v)
    /\ UNCHANGED Idle

NextSlice == View \/ ViewCopy \/ Store

SpecSlice == InitSlice /\ [][NextSlice]_vars

----------------------------------------------------------------------------
(* Boolean indexing on its own: any of the 2-D arrays below, any row mask  *)

\* the Boolean masks over n rows
Masks(n) == [1 .. n -> BOOLEAN]

\* the row indices drawn for a store into subset: one past either end too
RowIndices == -(MaxRows + 1) .. MaxRows

\* the scalars stored (lines 250 and 257)
RowScalars == {-5, 10}

InitMask ==
    /\ pc = 0
    /\ exc = "none"
    /\ lib = "legacy"
    /\ \E nrow \in 1 .. MaxRows, ncol \in 1 .. MaxCols :
          /\ heap = numbers_array(<<>>, nrow, ncol).heap
          /\ data = numbers_array(<<>>, nrow, ncol).obj
    /\ arr = NoneObj /\ slice1 = NoneObj /\ subset = NoneObj
    /\ it = 0
    /\ result = <<>>
    /\ X = <<>>
    /\ files0 = <<>>
    /\ files = files0
    /\ hist = NoHist

\* subset = data[m]
Mask ==
    /\ exc = "none"
    /\ \E m \in Masks(NRows(data)) : TakeSubset(m)
    /\ UNCHANGED Idle

\* subset[r] = v
StoreRow ==
    /\ exc = "none"
    /\ hist.nw < MaxWrites
    /\ \E r \in RowIndices, v \in RowScalars : WriteSubsetRow(r, v)
    /\ UNCHANGED <<pc, lib, it, result, X, files, files0>>

NextMask == Mask \/ StoreRow

SpecMask == InitMask /\ [][NextMask]_vars

----------------------------------------------------------------------------
(* Properties *)

\* the script's own case of lines 203-207 / 212-216: np.arange(10) sliced
\* [2:7], then one store of -42 into [:2] of the slice
ScriptSliceCase ==
    /\ hist.src = Arange(10)
    /\ hist.lo = 2
    /\ slice1.kind = "nd1" /\ slice1.len = 5
    /\ hist.nw = 1
    /\ hist.offs = {0, 1}
    /\ hist.v = -42

\* C1: a slice is a view.  After any store through slice1 = arr[i:j], every
\* element of arr at (start of the slice + a stored offset) holds the stored
\* value and every other element of arr holds what it held before the store;
\* in the script's case arr is 0, 1, -42, -42, 4, ..., 9.
ViewStoreReachesSource ==
    /\ (hist.made = "view" /\ hist.nw > 0) =>
          \A p \in 0 .. arr.len - 1 :
              Get(heap, arr, p) =
                  IF (p - hist.lo) \in hist.offs THEN hist.v ELSE hist.pre[p + 1]
    /\ (hist.made = "view" /\ ScriptSliceCase) =>
          Values(heap, arr) = <<0, 1, -42, -42, 4, 5, 6, 7, 8, 9>>

\* C1 witness: the script's case has run on a view and arr shows the store
ViewStoreSeen ==
    /\ hist.made = "view"
    /\ ScriptSliceCase
    /\ Values(heap, slice1) = <<-42, -42, 4, 5, 6>>
    /\ Values(heap, arr) # hist.pre

\* C2: a slice taken with .copy() is independent of its source.  Whatever
\* stores went through slice1 = arr[i:j].copy(), arr holds what it held when
\* the copy was taken; in the script's case arr is still 0..9.
CopyStoreLeavesSource ==
    hist.made = "copy" => Values(heap, arr) = hist.src

\* C2 witness: the script's case has run on a copy, the copy shows the
\* store and arr is still 0..9
CopyStoreSeen ==
    /\ hist.made = "copy"
    /\ ScriptSliceCase
    /\ Values(heap, slice1) = <<-42, -42, 4, 5, 6>>
    /\ Values(heap, arr) = Arange(10)

\* C3: Boolean indexing makes a copy.  After subset = data[m], a store
\* subset[r] = v puts v in every element of that row of subset, leaves the
\* other rows of subset alone and leaves every element of data unchanged.
MaskStoreLeavesData ==
    hist.made = "mask" =>
        /\ Values2(heap, data) = hist.src
        /\ hist.nw > 0 =>
              \A r \in 1 .. NRows(subset) :
                  Values2(heap, subset)[r] =
                      IF r \in hist.offs THEN [c \in 1 .. subset.ncol |-> hist.v]
                      ELSE hist.spre[r]

\* C3 witness: a store into row 0 of a subset of two or more rows changed
\* the subset
MaskStoreSeen ==
    /\ hist.made = "mask"
    /\ hist.nw > 0
    /\ NRows(subset) >= 2
    /\ hist.offs = {1}
    /\ Values2(heap, subset) # hist.spre
    /\ Values2(heap, data) = hist.src

\* C4 as stated: once the run is complete the working directory holds the
\* files it held before the run, with the contents they had.
NoPersistentState ==
    Finished => files = files0

\* C4 as amended: once the run is complete the working directory holds
\* some_array.npy with the serialised np.arange(10), and every other file
\* is there exactly if it was there before, with the contents it had.
OnlySavedArrayPersists ==
    Finished =>
        /\ DOMAIN files = DOMAIN files0 \cup {"some_array.npy"}
        /\ files["some_array.npy"] = NpyBytes(Arange(10))
        /\ \A n \in DOMAIN files0 \ {"some_array.npy"} : files[n] = files0[n]

\* C4 witness: a complete run that started without some_array.npy and with
\* another file, and ended with some_array.npy on disk
SavedArrayLeftBehind ==
    /\ Finished
    /\ "some_array.npy" \notin DOMAIN files0
    /\ "some_array" \in DOMAIN files0
    /\ "some_array.npy" \in DOMAIN files

\* C5: the run is a linear pass that reaches the end of the file: until the
\* last statement has run there is always a next statement to run.
RunReachesEnd ==
    Finished \/ ENABLED Next

====
